---- MODULE Spec2Model ----
(***************************************************************************)
(* Cafenet inventory ledger and undo engine (src/Cafenet.py).              *)
(*                                                                         *)
(* The SQLite database is the tables products, sales_log and undo_stack    *)
(* with their AUTOINCREMENT counters (sqlite_sequence).  The process keeps *)
(* the in-memory undo mirror, the rows shown in the product tree, the      *)
(* search box and the report label.  Every button handler is one action;   *)
(* the refresh_list() call that ends a handler is part of that action.     *)
(*                                                                         *)
(* Every handler opens one connection per statement group and commits it,  *)
(* so a handler is a sequence of separate transactions.  The parameter f   *)
(* of an action names the storage fault that hits the handler:             *)
(*   "none"  no fault                                                      *)
(*   "txn"   the handler's (first) products/sales_log transaction raises   *)
(*   "txn2"  the second products/sales_log statement of an undo raises     *)
(*   "undo"  the undo_stack transaction (_push_undo/_pop_undo_db) raises   *)
(*   "crash" the process dies after the handler's first commit and the     *)
(*           application is started again                                  *)
(*   "refresh" the query of the refresh_list() that ends the handler       *)
(*           raises: the tree and the report keep what they showed         *)
(* Spec runs the handlers without faults, SpecFault with them, SpecStale   *)
(* the add, sell, delete and undo handlers with the "refresh" fault only.  *)
(*                                                                         *)
(* The backup worker (make_backup_periodic) is a thread of its own.  Its   *)
(* shutil.copy2 reads the database file without any SQLite lock, so a      *)
(* commit of the foreground can fall between two of its reads.  The file   *)
(* holds the tables in the order init_db creates them (products,           *)
(* sqlite_sequence, logs, sales_log, undo_stack); the copy is modelled as  *)
(* two reads, with the place where the first read ends (split) chosen      *)
(* freely.  A backup file inventory_backup_<ts>.db is named by its         *)
(* timestamp ts; "%Y%m%d_%H%M%S" has a fixed width, so the order of the    *)
(* file names is the order of the timestamps, which are numbers here.      *)
(* SpecBackup runs the worker next to the handlers; SpecRetain runs the    *)
(* worker alone on a backups folder that already holds files.              *)
(*                                                                         *)
(* Not modelled: the logs table (written, never read), widget styling,     *)
(* the list filters (they only order rows, or hide rows with qty >= 5,     *)
(* which is above MaxQty).  sales_log.timestamp is datetime.now() of the   *)
(* insert, so ORDER BY timestamp is the order of the row ids.  The payload *)
(* of an undo entry is a dict of ints and strings, which json.dumps and    *)
(* json.loads return unchanged, so it is kept as a record.                 *)
(***************************************************************************)
EXTENDS Integers, Sequences, FiniteSets, TLC

\* ---- bounds ----
MaxCommands == 3      \* add, sell and delete commands in one run (those hit by a fault count)
MaxQty == 3           \* largest quantity typed into the quantity field
MaxFaults == 1        \* storage faults and crashes in one run of SpecFault
MaxPasses == 1        \* passes of the backup worker in one run

KeepN == 20           \* keep_last_n_backups(folder, 20)

\* what is typed into the form: <<name, buy price, sell price>>
Items == {<<"a", 1, 3>>, <<"b", 2, 1>>}
Searches == {"", "a"}
QtyInputs == {-1, 0, 1, MaxQty}
\* the add form: <<item, quantity, "ok">> when the four fields are filled in
\* and parse with int(), otherwise what is wrong with it
AddForms == {<<i, q, "ok">> : i \in Items, q \in QtyInputs}
            \cup {<<<<"a", 1, 3>>, 0, "missing">>, <<<<"a", 1, 3>>, 0, "nonnumeric">>}
\* the quantity asked for in a sell: 0 (which sell_item takes as 1), 1, and
\* the largest
SellRequests == {0, 1, MaxQty}
Faults == {"none", "txn", "txn2", "undo", "crash", "refresh"}

NULL == 0             \* SQL NULL in sales_log.product_id (row ids start at 1)

VARIABLES
    products,     \* table products: rows [id, name, qty, buy, sell, sold]
    prodSeq,      \* sqlite_sequence of products
    sales_log,    \* table sales_log: rows [id, product_id, qty, price_buy, price_sell, profit]
    salesSeq,     \* sqlite_sequence of sales_log
    undo_stack,   \* table undo_stack: rows [id, action, payload]
    undoSeq,      \* sqlite_sequence of undo_stack
    mirror,       \* self._undo_stack, the in-memory list
    tree,         \* ids of the rows shown in self.tree
    var_search,   \* text of the search box
    report,       \* total profit shown in report_label
    h,            \* history: the last command, with the database before it
    faults,       \* history: the number of storage faults and crashes so far
    done,         \* history: the completed add, sell and delete commands that
                  \* no undo has consumed an entry for, oldest first
    folder,       \* the backups folder: the timestamps of its inventory_backup_ files
    bk            \* the backup worker: where it is (pc), its passes so far (n), the
                  \* timestamp it read last (ts), where its first read ends (split),
                  \* what the first read saw (first), the copy it wrote (file), and
                  \* as history the folder when the pass began (had) and the
                  \* values the database had while the copy was open (seen)

dbvars == <<products, prodSeq, sales_log, salesSeq, undo_stack, undoSeq>>
uivars == <<mirror, tree, var_search, report>>
bkvars == <<folder, bk>>
vars == <<products, prodSeq, sales_log, salesSeq, undo_stack, undoSeq,
          mirror, tree, var_search, report, h, faults, done, folder, bk>>

\* the database as one value
Db == [products |-> products, prodSeq |-> prodSeq,
       sales_log |-> sales_log, salesSeq |-> salesSeq,
       undo_stack |-> undo_stack, undoSeq |-> undoSeq]

EmptyDb == [products |-> {}, prodSeq |-> 0, sales_log |-> {}, salesSeq |-> 0,
            undo_stack |-> {}, undoSeq |-> 0]

\* ---- helpers ----
Ids(rows) == {r.id : r \in rows}

MaxOf(S) == IF S = {} THEN 0 ELSE CHOOSE m \in S : \A x \in S : x <= m

Row(rows, id) == CHOOSE r \in rows : r.id = id

\* rowid of an INSERT without id into an AUTOINCREMENT table
NextRowid(rows, seq) ==
    LET m == MaxOf(Ids(rows)) IN (IF seq >= m THEN seq ELSE m) + 1

\* name LIKE '%q%' for the one-letter names of Items
Like(q, name) == q = "" \/ q = name

RECURSIVE SumProfit(_)
SumProfit(rows) ==
    IF rows = {} THEN 0
    ELSE LET r == CHOOSE x \in rows : TRUE
         IN r.profit + SumProfit(rows \ {r})

RECURSIVE SortById(_)
SortById(rows) ==
    IF rows = {} THEN <<>>
    ELSE LET r == Row(rows, MaxOf(Ids(rows)))
         IN Append(SortById(rows \ {r}), r)

NoEntry == [id |-> 0, action |-> "NONE", payload |-> [product_id |-> 0]]

\* ---- SQL statements, as functions of the database value ----

\* INSERT INTO products (name, qty, buy_price, sell_price): sold_qty defaults to 0
InsertProduct(d, name, qi, bi, si) ==
    LET id == NextRowid(d.products, d.prodSeq)
    IN [d EXCEPT !.products = @ \cup {[id |-> id, name |-> name, qty |-> qi,
                                       buy |-> bi, sell |-> si, sold |-> 0]},
                 !.prodSeq = id]

\* INSERT INTO products (id, ...): the caller has checked that id is free
InsertProductWithId(d, id, data) ==
    [d EXCEPT !.products = @ \cup {[id |-> id, name |-> data.name, qty |-> data.qty,
                                    buy |-> data.buy, sell |-> data.sell,
                                    sold |-> data.sold]},
              !.prodSeq = IF id > @ THEN id ELSE @]

\* INSERT INTO products (name, qty, buy_price, sell_price, sold_qty)
InsertProductData(d, data) ==
    LET id == NextRowid(d.products, d.prodSeq)
    IN [d EXCEPT !.products = @ \cup {[id |-> id, name |-> data.name, qty |-> data.qty,
                                       buy |-> data.buy, sell |-> data.sell,
                                       sold |-> data.sold]},
                 !.prodSeq = id]

\* mutant: the foreign key is declared ON DELETE CASCADE, the sales of the
\* deleted product go with it
DeleteProductRowCascade(d, pid) ==
    [d EXCEPT !.products = {r \in @ : r.id # pid},
              !.sales_log = {s \in @ : ~(s.product_id = pid /\ pid \in Ids(d.products))}]

\* DELETE FROM products WHERE id=?, with foreign_keys ON and
\* sales_log.product_id ... ON DELETE SET NULL
DeleteProductRow(d, pid) ==
    [d EXCEPT !.products = {r \in @ : r.id # pid},
              !.sales_log = {IF s.product_id = pid /\ pid \in Ids(d.products)
                             THEN [s EXCEPT !.product_id = NULL] ELSE s : s \in @}]

\* UPDATE products SET qty=?, sold_qty=? WHERE id=?
UpdateQty(d, pid, q, sold) ==
    [d EXCEPT !.products = {IF r.id = pid THEN [r EXCEPT !.qty = q, !.sold = sold]
                            ELSE r : r \in @}]

\* UPDATE products SET qty=qty + ?, sold_qty = MAX(sold_qty - ?, 0) WHERE id=?
AddBackQty(d, pid, q) ==
    [d EXCEPT !.products =
        {IF r.id = pid
         THEN [r EXCEPT !.qty = @ + q, !.sold = IF @ - q > 0 THEN @ - q ELSE 0]
         ELSE r : r \in @}]

\* profit = (sell_price - buy_price) * qty_to_sell
Profit(sell_price, buy_price, qty_to_sell) == (sell_price - buy_price) * qty_to_sell

\* INSERT INTO sales_log (product_id, qty, price_buy, price_sell, profit, timestamp)
InsertSale(d, pid, q, buy_price, sell_price) ==
    LET id == NextRowid(d.sales_log, d.salesSeq)
    IN [d EXCEPT !.sales_log = @ \cup {[id |-> id, product_id |-> pid, qty |-> q,
                                        price_buy |-> buy_price, price_sell |-> sell_price,
                                        profit |-> Profit(sell_price, buy_price, q)]},
                 !.salesSeq = id]

\* DELETE FROM sales_log WHERE id=?
DeleteSale(d, sid) == [d EXCEPT !.sales_log = {s \in @ : s.id # sid}]

\* SELECT id FROM sales_log WHERE product_id=? AND qty=? ORDER BY timestamp DESC LIMIT 1
\* and DELETE FROM sales_log WHERE id=? of the row found
DeleteRecentMatchingSale(d, pid, q) ==
    LET match == {s \in d.sales_log : s.product_id = pid /\ s.qty = q}
    IN IF match = {} THEN d ELSE DeleteSale(d, MaxOf(Ids(match)))

\* INSERT INTO undo_stack (action, payload, timestamp)
PushUndoRow(d, action, payload) ==
    LET id == NextRowid(d.undo_stack, d.undoSeq)
    IN [d EXCEPT !.undo_stack = @ \cup {[id |-> id, action |-> action,
                                         payload |-> payload]},
                 !.undoSeq = id]

\* SELECT id, action, payload FROM undo_stack ORDER BY id DESC LIMIT 1
TopUndo(d) ==
    IF d.undo_stack = {} THEN NoEntry
    ELSE Row(d.undo_stack, MaxOf(Ids(d.undo_stack)))

\* DELETE FROM undo_stack WHERE id=?
DeleteUndoRow(d, uid) == [d EXCEPT !.undo_stack = {e \in @ : e.id # uid}]

\* mutant: only the row is deleted, the in-memory list keeps the entry
MirrorKeeps(m, uid) == m

\* _pop_undo_db on the mirror: drop the last element if it has the id,
\* otherwise the last element that has it
RECURSIVE MirrorPop(_, _)
MirrorPop(m, uid) ==
    IF m = <<>> THEN m
    ELSE IF m[Len(m)].id = uid THEN SubSeq(m, 1, Len(m) - 1)
    ELSE Append(MirrorPop(SubSeq(m, 1, Len(m) - 1), uid), m[Len(m)])

\* mutant: ORDER BY id DESC, the mirror is loaded newest first
RECURSIVE SortByIdDescending(_)
SortByIdDescending(rows) ==
    IF rows = {} THEN <<>>
    ELSE LET r == Row(rows, MaxOf(Ids(rows)))
         IN <<r>> \o SortByIdDescending(rows \ {r})

LoadUndoStackNewestFirst(d) == SortByIdDescending(d.undo_stack)

\* _load_undo_stack: SELECT ... FROM undo_stack ORDER BY id ASC
LoadUndoStack(d) == SortById(d.undo_stack)

\* mutant: the profit is summed over a join with products, which drops the
\* sales of deleted products
TotalProfitOfListedProducts(d) ==
    SumProfit({s \in d.sales_log : s.product_id # NULL})

\* update_report: SELECT COALESCE(SUM(profit),0) FROM sales_log
TotalProfit(d) == SumProfit(d.sales_log)

\* refresh_list: the rows the query returns, the housekeeping delete of the
\* rows with qty <= 0 among them, and the rows inserted into the tree
RefreshRows(d, q) == {r \in d.products : Like(q, r.name)}

RECURSIVE DeleteRows(_, _)
DeleteRows(d, ids) ==
    IF ids = {} THEN d
    ELSE LET i == CHOOSE x \in ids : TRUE
         IN DeleteRows(DeleteProductRow(d, i), ids \ {i})

\* mutant: the housekeeping also removes the rows with one unit left
RefreshDbLowStock(d, q) == DeleteRows(d, Ids({r \in RefreshRows(d, q) : r.qty <= 1}))

RefreshDb(d, q) == DeleteRows(d, Ids({r \in RefreshRows(d, q) : r.qty <= 0}))

RefreshTree(d, q) == Ids({r \in RefreshRows(d, q) : r.qty > 0})

\* sell_item: qty_to_sell coerced to at least 1, then capped at the stock
CoerceQty(q) == IF q < 1 THEN 1 ELSE q

\* mutant: the quantity asked for is sold without the cap
CappedQtyUncapped(q, qty) == q

CappedQty(q, qty) == IF q > qty THEN qty ELSE q

\* ---- the backup worker ----

\* sorted([... for f in os.listdir(folder) if f.startswith("inventory_backup_")])
RECURSIVE SortedFiles(_)
SortedFiles(files) ==
    IF files = {} THEN <<>>
    ELSE LET f == CHOOSE x \in files : \A y \in files : x <= y
         IN <<f>> \o SortedFiles(files \ {f})

\* mutant: files[n:] is removed, the oldest n files are kept
KeepFirstN(files, n) ==
    LET sorted == SortedFiles(files)
    IN IF Len(sorted) > n THEN {sorted[i] : i \in 1..n} ELSE files

\* keep_last_n_backups: os.remove of every file of files[:-n]; what is left
keep_last_n_backups(files, n) ==
    LET sorted == SortedFiles(files)
    IN IF Len(sorted) > n
       THEN files \ {sorted[i] : i \in 1..(Len(sorted) - n)}
       ELSE files

\* where the first read of the copy can end: after the pages of products, or
\* after those of sales_log
Splits == {"products", "sales_log"}

\* the seconds between the last timestamp and the next one: a local clock
\* that was set back, a restart within the same second, or time going on
ClockSteps == {-1, 0, 1}

\* the bytes shutil.copy2 wrote: what its first read saw up to split, and
\* what its second read saw after it
CopyOf(first, rest, split) ==
    IF split = "products" THEN [rest EXCEPT !.products = first.products]
    ELSE [first EXCEPT !.undo_stack = rest.undo_stack]

\* the worker between two passes, its clock showing ts
\* stop: _backup_stop is set; fails: the passes that raised; begun: the passes
\* started, at: their number when stop was set; cut: the process ended while
\* a copy was open
Idle(ts) == [pc |-> "wait", n |-> 0, ts |-> ts, split |-> "products",
             first |-> EmptyDb, file |-> EmptyDb, had |-> {}, seen |-> {},
             stop |-> FALSE, fails |-> 0, begun |-> 0, at |-> 0, cut |-> FALSE]

\* ---- state changes shared by the handlers ----

Install(d, m, t, q, r) ==
    /\ products' = d.products
    /\ prodSeq' = d.prodSeq
    /\ sales_log' = d.sales_log
    /\ salesSeq' = d.salesSeq
    /\ undo_stack' = d.undo_stack
    /\ undoSeq' = d.undoSeq
    /\ mirror' = m
    /\ tree' = t
    /\ var_search' = q
    /\ report' = r

\* mutant: the handler refreshes the list before it returns
ReturnAfterRefresh ==
    Install(RefreshDb(Db, var_search), mirror, RefreshTree(Db, var_search), var_search,
            TotalProfit(RefreshDb(Db, var_search)))

\* the handler returns before it changes anything
Return == UNCHANGED <<dbvars, uivars>>

\* the handler ends with self.refresh_list(), which ends with update_report()
Finish(d, m) ==
    Install(RefreshDb(d, var_search), m, RefreshTree(d, var_search), var_search,
            TotalProfit(RefreshDb(d, var_search)))

\* the handler ends with a refresh_list() whose db_query raises before the
\* tree is cleared
Stale(d, m) == Install(d, m, tree, var_search, report)

\* CafenetApp.__init__ on the database d: empty search box, _load_undo_stack,
\* refresh_list
Startup(d) ==
    Install(RefreshDb(d, ""), LoadUndoStack(d), RefreshTree(d, ""), "",
            TotalProfit(RefreshDb(d, "")))

\* the history variable: the last command (kind), the row it was about (pid),
\* the quantity asked for (req), read (stock) and written (newq), its outcome
\* (res), the undo entry it popped (entry) and the database before it (pre);
\* for an add that got as far as its INSERT what the form held (item);
\* for an undo also the newest command of done (top) and, when the undo
\* follows a completed add, sell or delete or a restart, that command (before)
NoBefore == [kind |-> "NONE", pid |-> 0, req |-> 0, stock |-> 0, res |-> "ok",
             pre |-> EmptyDb]

NoCommand == <<"NONE", 0>>

Completed == {"added", "sold", "deleted"}

NoItem == <<"", 0, 0>>

\* added: for every id that add_product inserted, and that is in products
\* or saved in a DELETE entry, the quantity it was inserted with
RecordItem(item, kind, pid, req, stock, newq, res, entry) ==
    /\ h' = [kind |-> kind, pid |-> pid, req |-> req, stock |-> stock,
             newq |-> newq, res |-> res, entry |-> entry, pre |-> Db, item |-> item,
             top |-> IF kind = "UNDO" /\ done # <<>> THEN done[Len(done)]
                     ELSE NoCommand,
             before |-> IF kind = "UNDO" /\ (h.res \in Completed \/ h.kind = "RESTART")
                        THEN [kind |-> h.kind, pid |-> h.pid, req |-> h.req,
                              stock |-> h.stock, res |-> h.res, pre |-> h.pre]
                        ELSE NoBefore,
             added |-> {a \in (IF kind = "ADD" /\ res \in {"added", "crashed"}
                                THEN h.added \cup {<<pid, req>>}
                                ELSE h.added) :
                          \/ a[1] \in Ids(products')
                          \/ \E e \in undo_stack' :
                                e.action = "DELETE" /\ e.payload.product_id = a[1]}]
    /\ done' = IF res \in Completed THEN Append(done, <<kind, pid>>)
               ELSE IF kind = "UNDO" /\ entry.id # 0 /\ done # <<>>
               THEN SubSeq(done, 1, Len(done) - 1)
               ELSE done

Record(kind, pid, req, stock, newq, res, entry) ==
    RecordItem(NoItem, kind, pid, req, stock, newq, res, entry)

NoHistory == [kind |-> "INIT", pid |-> 0, req |-> 0, stock |-> 0, newq |-> 0,
              res |-> "ok", entry |-> NoEntry, pre |-> EmptyDb, item |-> NoItem,
              top |-> NoCommand,
              before |-> NoBefore, added |-> {}]

Init ==
    /\ products = {} /\ prodSeq = 0
    /\ sales_log = {} /\ salesSeq = 0
    /\ undo_stack = {} /\ undoSeq = 0
    /\ mirror = <<>>
    /\ tree = {}
    /\ var_search = ""
    /\ report = 0
    /\ h = NoHistory
    /\ faults = 0
    /\ done = <<>>
    /\ folder = {}
    /\ bk = Idle(0)

\* ---- the handlers ----

\* the bound on the commands of a run: every add, sell or delete that is not
\* hit by a fault pushes one undo_stack row
Budget == undoSeq + faults < MaxCommands

add_product(item, qi, fs, f) ==
    /\ f \in {"none", "txn", "undo", "crash", "refresh"}
    /\ IF fs # "ok"
       THEN /\ f = "none"
            /\ Return
            /\ Record("ADD", 0, 0, 0, 0, "invalid", NoEntry)
       ELSE /\ Budget
            /\ IF f = "txn"
               THEN Return /\ Record("ADD", 0, qi, 0, 0, "failed", NoEntry)
               ELSE LET d1 == InsertProduct(Db, item[1], qi, item[2], item[3])
                        last_id == d1.prodSeq
                        d2 == PushUndoRow(d1, "ADD", [product_id |-> last_id])
                    IN /\ CASE f = "crash" -> Startup(d1)
                            [] f = "undo" -> Finish(d1, mirror)
                            [] f = "refresh" -> Stale(d2, Append(mirror, TopUndo(d2)))
                            [] OTHER -> Finish(d2, Append(mirror, TopUndo(d2)))
                       /\ RecordItem(item, "ADD", last_id, qi, 0, qi,
                                     IF f = "crash" THEN "crashed" ELSE "added", NoEntry)

\* pid: the selected row of the tree; req: the quantity asked for;
\* confirm: the answer to the "sell what is left?" dialog
sell_item(pid, req, confirm, f) ==
    /\ pid \in tree
    /\ f \in {"none", "txn", "undo", "crash", "refresh"}
    /\ LET qty_to_sell == CoerceQty(req) IN
       IF pid \notin Ids(products)
       THEN f = "none" /\ Return /\ Record("SELL", pid, 0, 0, 0, "notfound", NoEntry)
       ELSE LET row == Row(products, pid)
                eff == CappedQty(qty_to_sell, row.qty)
                newq == row.qty - eff
                newsold == row.sold + eff
                d1 == InsertSale(UpdateQty(Db, pid, newq, newsold),
                                 pid, eff, row.buy, row.sell)
                d2 == PushUndoRow(d1, "SELL",
                                  [product_id |-> pid, qty |-> eff, prev_qty |-> row.qty,
                                   prev_sold |-> row.sold, sales_log_id |-> d1.salesSeq])
            IN IF row.qty <= 0
               THEN f = "none" /\ Return
                    /\ Record("SELL", pid, 0, row.qty, row.qty, "outofstock", NoEntry)
               ELSE IF qty_to_sell > row.qty /\ ~confirm
               THEN f = "none" /\ Return
                    /\ Record("SELL", pid, qty_to_sell, row.qty, row.qty, "declined", NoEntry)
               ELSE /\ Budget
                    /\ IF f = "txn"
                       THEN Return
                            /\ Record("SELL", pid, qty_to_sell, row.qty, row.qty, "failed", NoEntry)
                       ELSE /\ CASE f = "crash" -> Startup(d1)
                                 [] f = "undo" -> Finish(d1, mirror)
                                 [] f = "refresh" -> Stale(d2, Append(mirror, TopUndo(d2)))
                                 [] OTHER -> Finish(d2, Append(mirror, TopUndo(d2)))
                            /\ Record("SELL", pid, qty_to_sell, row.qty, newq,
                                      IF f = "crash" THEN "crashed" ELSE "sold", NoEntry)

\* confirm: the answer to the "delete?" dialog
delete_item(pid, confirm, f) ==
    /\ pid \in tree
    /\ f \in {"none", "txn", "undo", "crash", "refresh"}
    /\ IF pid \notin Ids(products)
       THEN f = "none" /\ Return /\ Record("DELETE", pid, 0, 0, 0, "notfound", NoEntry)
       ELSE IF ~confirm
       THEN f = "none" /\ Return /\ Record("DELETE", pid, 0, 0, 0, "declined", NoEntry)
       ELSE LET row == Row(products, pid)
                data == [name |-> row.name, qty |-> row.qty, buy |-> row.buy,
                         sell |-> row.sell, sold |-> row.sold]
                pushed == PushUndoRow(Db, "DELETE", [product_id |-> pid, data |-> data])
                d1 == IF f = "undo" THEN Db ELSE pushed
                m1 == IF f = "undo" THEN mirror ELSE Append(mirror, TopUndo(pushed))
            IN /\ Budget
               /\ CASE f = "crash" -> Startup(d1)
                    [] f = "txn" -> Install(d1, m1, tree, var_search, report)
                    [] f = "refresh" -> Stale(DeleteProductRow(d1, pid), m1)
                    [] OTHER -> Finish(DeleteProductRow(d1, pid), m1)
               /\ Record("DELETE", pid, 0, row.qty, 0,
                         CASE f = "crash" -> "crashed" [] f = "txn" -> "raised"
                           [] OTHER -> "deleted", NoEntry)

\* mutant: when the added row is gone the undo of an add removes the newest
\* row instead
UndoAddOrNewest(d, p) ==
    IF p.product_id \in Ids(d.products) THEN DeleteProductRow(d, p.product_id)
    ELSE DeleteProductRow(d, MaxOf(Ids(d.products)))

\* mutant: the undo of an add deletes the row before the one that was added
UndoAddWrongRow(d, p) == DeleteProductRow(d, p.product_id - 1)

\* undo_last, act == "ADD": DELETE FROM products WHERE id=?
UndoAdd(d, p) == DeleteProductRow(d, p.product_id)

\* mutant: the undo of a sale sets qty back and leaves sold_qty as it is
UndoSellKeepsSold(d, p, f) ==
    LET dA == IF p.product_id \in Ids(d.products)
              THEN UpdateQty(d, p.product_id, p.prev_qty,
                             Row(d.products, p.product_id).sold)
              ELSE d
    IN IF p.sales_log_id = 0 THEN dA
       ELSE IF f = "txn2" THEN DeleteRecentMatchingSale(dA, p.product_id, p.qty)
       ELSE DeleteSale(dA, p.sales_log_id)

\* undo_last, act == "SELL": put the quantities back, then remove the sales_log
\* row by its saved id; when that DELETE raises (f = "txn2") the handler removes
\* the most recent row with the same product and quantity instead
UndoSell(d, p, f) ==
    LET dA == IF "prev_qty" \in DOMAIN p /\ "prev_sold" \in DOMAIN p
              THEN UpdateQty(d, p.product_id, p.prev_qty, p.prev_sold)
              ELSE AddBackQty(d, p.product_id, p.qty)
    IN IF p.sales_log_id = 0 THEN dA
       ELSE IF f = "txn2" THEN DeleteRecentMatchingSale(dA, p.product_id, p.qty)
       ELSE DeleteSale(dA, p.sales_log_id)

\* mutant: the undo of a delete inserts the row without its sold_qty
UndoDeleteLosesSold(d, p, f) ==
    IF f = "txn2" THEN d
    ELSE IF p.product_id \in Ids(d.products) \/ f = "txn"
    THEN InsertProductData(d, [p.data EXCEPT !.sold = 0])
    ELSE InsertProductWithId(d, p.product_id, [p.data EXCEPT !.sold = 0])

\* mutant: the undo of a delete also points the sales without a product at
\* the restored row
UndoDeleteRelinks(d, p, f) ==
    IF f = "txn2" THEN d
    ELSE LET d1 == IF p.product_id \in Ids(d.products) \/ f = "txn"
                   THEN InsertProductData(d, p.data)
                   ELSE InsertProductWithId(d, p.product_id, p.data)
         IN [d1 EXCEPT !.sales_log =
                {IF s.product_id = NULL THEN [s EXCEPT !.product_id = p.product_id]
                 ELSE s : s \in @}]

\* mutant: the snapshot is always inserted without its id
UndoDeleteFreshId(d, p, f) ==
    IF f = "txn2" THEN d ELSE InsertProductData(d, p.data)

\* mutant: the restoring statement is INSERT OR REPLACE, a row that holds the
\* saved id is overwritten by the snapshot
UndoDeleteReplaces(d, p, f) ==
    IF f = "txn2" THEN d
    ELSE IF f = "txn" THEN InsertProductData(d, p.data)
    ELSE InsertProductWithId([d EXCEPT !.products = {r \in @ : r.id # p.product_id}],
                             p.product_id, p.data)

\* undo_last, act == "DELETE": INSERT with the saved id; when that raises (the
\* id is taken, or f = "txn") INSERT without id; when that raises too
\* (f = "txn2") the failure is logged
UndoDelete(d, p, f) ==
    IF f = "txn2" THEN d
    ELSE IF p.product_id \in Ids(d.products) \/ f = "txn"
    THEN InsertProductData(d, p.data)
    ELSE InsertProductWithId(d, p.product_id, p.data)

\* the try block of undo_last on the popped entry e
Compensate(d, e, f) ==
    CASE e.action = "ADD" -> IF f = "txn" THEN d ELSE UndoAdd(d, e.payload)
      [] e.action = "SELL" -> IF f = "txn" THEN d ELSE UndoSell(d, e.payload, f)
      [] e.action = "DELETE" -> UndoDelete(d, e.payload, f)
      [] OTHER -> d

\* mutant: ORDER BY id ASC, the oldest row of undo_stack is popped
PopOldestEntry(d) ==
    IF d.undo_stack = {} THEN NoEntry
    ELSE CHOOSE e \in d.undo_stack : \A x \in d.undo_stack : e.id <= x.id

\* _pop_undo_db: the newest row of undo_stack, or NoEntry for None
PopEntry(d) == TopUndo(d)

\* mutant: undo_last goes on without an entry
NothingToUndoIgnored(entry) == FALSE

\* undo_last: "if not entry"
NothingToUndo(entry) == entry.id = 0

undo_last(f) ==
    /\ f \in Faults
    /\ LET entry == PopEntry(Db)
           d1 == DeleteUndoRow(Db, entry.id)
           m1 == MirrorPop(mirror, entry.id)
       IN IF f = "undo"
          THEN Return /\ Record("UNDO", 0, 0, 0, 0, "empty", NoEntry)
          ELSE IF NothingToUndo(entry)
          THEN f = "none" /\ Return /\ Record("UNDO", 0, 0, 0, 0, "empty", NoEntry)
          ELSE /\ f = "txn2" => entry.action \in {"SELL", "DELETE"}
               /\ CASE f = "crash" -> Startup(d1)
                    [] f = "refresh" -> Stale(Compensate(d1, entry, f), m1)
                    [] OTHER -> Finish(Compensate(d1, entry, f), m1)
               /\ Record("UNDO", entry.payload.product_id, 0, 0, 0,
                         CASE f = "crash" -> "crashed"
                           [] f = "txn" /\ entry.action # "DELETE" -> "error"
                           [] OTHER -> "undone", entry)

\* sid: the selected row of a sales history window, which may have been opened
\* before the row was removed; confirm: the answer to the dialog
delete_sales_record(sid, confirm) ==
    /\ sid \in 1..salesSeq
    /\ IF confirm
       THEN Install(DeleteSale(Db, sid), mirror, tree, var_search,
                    TotalProfit(DeleteSale(Db, sid)))
       ELSE Return
    /\ Record("DELETE_SALE", sid, 0, 0, 0, IF confirm THEN "removed" ELSE "declined",
              NoEntry)

\* a key released in the search box: refresh_list with the new text
search(q) ==
    /\ q # var_search
    /\ Install(RefreshDb(Db, q), mirror, RefreshTree(Db, q), q,
               TotalProfit(RefreshDb(Db, q)))
    /\ Record("SEARCH", 0, 0, 0, 0, "ok", NoEntry)

\* the window is closed and the application started again
restart ==
    /\ h.kind # "RESTART"
    /\ Startup(Db)
    /\ Record("RESTART", 0, 0, 0, 0, "ok", NoEntry)

\* a handler hit by the fault f; no backup is being made
Hit(f) ==
    /\ IF f = "none" THEN faults' = faults
       ELSE faults < MaxFaults /\ faults' = faults + 1
    /\ UNCHANGED bkvars

\* the values the database file takes inside a handler that runs to its end
\* without a fault, one after each commit: the statements of the handler, then
\* the DELETEs of the refresh_list that ends it, one commit each, in any order
RefreshCommits(d, q) ==
    {DeleteRows(d, S) : S \in SUBSET Ids({r \in RefreshRows(d, q) : r.qty <= 0})}

AddCommits(item, qi) ==
    LET d1 == InsertProduct(Db, item[1], qi, item[2], item[3])
        d2 == PushUndoRow(d1, "ADD", [product_id |-> d1.prodSeq])
    IN {d1, d2} \cup RefreshCommits(d2, var_search)

SellCommits(pid, req) ==
    IF pid \notin Ids(products) THEN {}
    ELSE LET row == Row(products, pid)
             eff == CappedQty(CoerceQty(req), row.qty)
             d1 == InsertSale(UpdateQty(Db, pid, row.qty - eff, row.sold + eff),
                              pid, eff, row.buy, row.sell)
             d2 == PushUndoRow(d1, "SELL",
                               [product_id |-> pid, qty |-> eff, prev_qty |-> row.qty,
                                prev_sold |-> row.sold, sales_log_id |-> d1.salesSeq])
         IN {d1, d2} \cup RefreshCommits(d2, var_search)

DeleteCommits(pid) ==
    IF pid \notin Ids(products) THEN {}
    ELSE LET row == Row(products, pid)
             data == [name |-> row.name, qty |-> row.qty, buy |-> row.buy,
                      sell |-> row.sell, sold |-> row.sold]
             d1 == PushUndoRow(Db, "DELETE", [product_id |-> pid, data |-> data])
             d2 == DeleteProductRow(d1, pid)
         IN {d1, d2} \cup RefreshCommits(d2, var_search)

UndoCommits ==
    LET entry == PopEntry(Db)
        d1 == DeleteUndoRow(Db, entry.id)
        d2 == IF entry.action = "SELL"
              THEN UndoSell(d1, [entry.payload EXCEPT !.sales_log_id = 0], "none")
              ELSE d1
        d3 == Compensate(d1, entry, "none")
    IN IF NothingToUndo(entry) THEN {}
       ELSE {d1, d2, d3} \cup RefreshCommits(d3, var_search)

\* a handler that runs while the backup worker may have the file open; commits
\* are the values the database file has taken when the handler ran to its end
Watched(commits) ==
    /\ faults' = faults
    /\ folder' = folder
    /\ bk' = IF bk.pc = "copy"
             THEN [bk EXCEPT !.seen =
                      @ \cup {Db'} \cup
                      (IF h'.res \in Completed \cup {"undone"} THEN commits ELSE {})]
             ELSE bk

\* worker(): ts = time.strftime(...), and shutil.copy2 creates dst and reads
\* the first part of the database file
worker_begin(step, split) ==
    /\ bk.pc = "wait"
    /\ ~bk.stop
    /\ bk.n < MaxPasses
    /\ bk.ts + step >= 1
    /\ bk' = [bk EXCEPT !.pc = "copy", !.ts = bk.ts + step, !.split = split,
                        !.first = Db, !.file = EmptyDb, !.had = folder,
                        !.seen = {Db}, !.begun = @ + 1]
    /\ folder' = folder \cup {bk.ts + step}
    /\ UNCHANGED <<dbvars, uivars, h, faults, done>>

\* worker(): shutil.copy2 reads the rest of the file and closes dst, then
\* keep_last_n_backups(folder, 20); of the history seen only the values that
\* the copy equals are kept
worker_end ==
    /\ bk.pc = "copy"
    /\ bk' = [bk EXCEPT !.pc = "wait", !.n = @ + 1,
                        !.file = CopyOf(bk.first, Db, bk.split),
                        !.first = EmptyDb, !.split = "products",
                        !.seen = @ \cap {CopyOf(bk.first, Db, bk.split)}]
    /\ folder' = keep_last_n_backups(folder, KeepN)
    /\ UNCHANGED <<dbvars, uivars, h, faults, done>>

\* mutant: the worker has no try block, the exception ends the thread
worker_dies(left) ==
    /\ bk.pc = "copy"
    /\ bk.fails < MaxFaults
    /\ bk' = [bk EXCEPT !.pc = "exit", !.fails = @ + 1, !.first = EmptyDb,
                        !.split = "products", !.seen = {}]
    /\ folder' = IF left THEN folder ELSE bk.had
    /\ UNCHANGED <<dbvars, uivars, h, faults, done>>

\* worker(): shutil.copy2 raises, the except branch logs it and the loop goes
\* on to _backup_stop.wait; left: dst was created and stays as it is,
\* otherwise the folder is as the pass found it
worker_fail(left) ==
    /\ bk.pc = "copy"
    /\ bk.fails < MaxFaults
    /\ bk' = [bk EXCEPT !.pc = "wait", !.fails = @ + 1, !.first = EmptyDb,
                        !.split = "products", !.seen = {}]
    /\ folder' = IF left THEN folder ELSE bk.had
    /\ UNCHANGED <<dbvars, uivars, h, faults, done>>

\* worker(): the copy is written, and in keep_last_n_backups os.remove
\* raises for the files of stuck, which stay
worker_end_stuck(stuck) ==
    /\ bk.pc = "copy"
    /\ bk.fails < MaxFaults
    /\ stuck # {}
    /\ stuck \subseteq folder \ keep_last_n_backups(folder, KeepN)
    /\ bk' = [bk EXCEPT !.pc = "wait", !.n = @ + 1, !.fails = @ + 1,
                        !.file = CopyOf(bk.first, Db, bk.split),
                        !.first = EmptyDb, !.split = "products",
                        !.seen = @ \cap {CopyOf(bk.first, Db, bk.split)}]
    /\ folder' = keep_last_n_backups(folder, KeepN) \cup stuck
    /\ UNCHANGED <<dbvars, uivars, h, faults, done>>

\* main.on_close: stop_backups() sets _backup_stop, root.destroy() ends the
\* handlers
on_close ==
    /\ ~bk.stop
    /\ bk' = [bk EXCEPT !.stop = TRUE, !.at = bk.begun]
    /\ UNCHANGED <<dbvars, uivars, h, faults, done, folder>>

\* worker(): _backup_stop.wait returns at once, the while condition is false
\* and the thread returns
worker_exit ==
    /\ bk.pc = "wait"
    /\ bk.stop
    /\ bk' = [bk EXCEPT !.pc = "exit"]
    /\ UNCHANGED <<dbvars, uivars, h, faults, done, folder>>

\* main returns after root.mainloop(): the interpreter ends and the worker,
\* a daemon thread that nothing joins, ends with it wherever it stands
exit_process ==
    /\ bk.stop
    /\ bk.pc # "dead"
    /\ bk' = [bk EXCEPT !.pc = "dead", !.cut = (bk.pc = "copy")]
    /\ UNCHANGED <<dbvars, uivars, h, faults, done, folder>>

Next ==
    \/ \E form \in AddForms :
          add_product(form[1], form[2], form[3], "none") /\ Hit("none")
    \/ \E pid \in tree, req \in SellRequests, confirm \in BOOLEAN :
          sell_item(pid, req, confirm, "none") /\ Hit("none")
    \/ \E pid \in tree, confirm \in BOOLEAN : delete_item(pid, confirm, "none") /\ Hit("none")
    \/ undo_last("none") /\ Hit("none")
    \/ \E sid \in 1..MaxCommands, confirm \in BOOLEAN : delete_sales_record(sid, confirm) /\ Hit("none")
    \/ \E q \in Searches : search(q) /\ Hit("none")
    \/ restart /\ Hit("none")

NextFault ==
    \/ \E form \in AddForms, f \in Faults :
          add_product(form[1], form[2], form[3], f) /\ Hit(f)
    \/ \E pid \in tree, req \in SellRequests, confirm \in BOOLEAN, f \in Faults :
          sell_item(pid, req, confirm, f) /\ Hit(f)
    \/ \E pid \in tree, confirm \in BOOLEAN, f \in Faults :
          delete_item(pid, confirm, f) /\ Hit(f)
    \/ \E f \in Faults : undo_last(f) /\ Hit(f)
    \/ \E sid \in 1..MaxCommands, confirm \in BOOLEAN : delete_sales_record(sid, confirm) /\ Hit("none")
    \/ \E q \in Searches : search(q) /\ Hit("none")
    \/ restart /\ Hit("none")

\* the add, sell, delete and undo handlers with no other fault than a
\* refresh_list() that raises, which leaves the tree showing rows that the
\* table no longer has
StaleFaults == {"none", "refresh"}

NextStale ==
    \/ \E form \in AddForms, f \in StaleFaults :
          add_product(form[1], form[2], form[3], f) /\ Hit(f)
    \/ \E pid \in tree, req \in SellRequests, confirm \in BOOLEAN, f \in StaleFaults :
          sell_item(pid, req, confirm, f) /\ Hit(f)
    \/ \E pid \in tree, confirm \in BOOLEAN, f \in StaleFaults :
          delete_item(pid, confirm, f) /\ Hit(f)
    \/ \E f \in StaleFaults : undo_last(f) /\ Hit(f)

Spec == Init /\ [][Next]_vars

SpecStale == Init /\ [][NextStale]_vars

\* delete_item writes in two transactions, the undo entry first (658) and the
\* DELETE second (663): a failure between them is the DELETE raising ("txn")
\* or the process dying ("crash")
DeleteFaults == {"none", "txn", "crash"}

\* the four ledger handlers where only delete_item can fail
NextCollide ==
    \/ \E form \in AddForms : add_product(form[1], form[2], form[3], "none") /\ Hit("none")
    \/ \E pid \in tree, req \in SellRequests, confirm \in BOOLEAN :
          sell_item(pid, req, confirm, "none") /\ Hit("none")
    \/ \E pid \in tree, confirm \in BOOLEAN, f \in DeleteFaults :
          delete_item(pid, confirm, f) /\ Hit(f)
    \/ undo_last("none") /\ Hit("none")

SpecCollide == Init /\ [][NextCollide]_vars

\* the handlers and the backup worker side by side
NextBackup ==
    \/ \E form \in AddForms :
          add_product(form[1], form[2], form[3], "none")
             /\ Watched(AddCommits(form[1], form[2]))
    \/ \E pid \in tree, req \in SellRequests, confirm \in BOOLEAN :
          sell_item(pid, req, confirm, "none") /\ Watched(SellCommits(pid, req))
    \/ \E pid \in tree, confirm \in BOOLEAN :
          delete_item(pid, confirm, "none") /\ Watched(DeleteCommits(pid))
    \/ undo_last("none") /\ Watched(UndoCommits)
    \/ \E step \in ClockSteps, split \in Splits : worker_begin(step, split)
    \/ worker_end

SpecBackup == Init /\ [][NextBackup]_vars

\* a backups folder left by earlier runs: the files of the timestamps 1..k,
\* at most KeepN of them, one of which may be missing
OldFolders == {(1..k) \ {j} : k \in 0..KeepN, j \in 0..KeepN}

InitRetain ==
    /\ products = {} /\ prodSeq = 0
    /\ sales_log = {} /\ salesSeq = 0
    /\ undo_stack = {} /\ undoSeq = 0
    /\ mirror = <<>>
    /\ tree = {}
    /\ var_search = ""
    /\ report = 0
    /\ h = NoHistory
    /\ faults = 0
    /\ done = <<>>
    /\ folder \in OldFolders
    /\ bk = Idle(MaxOf(folder))

NextRetain ==
    \/ \E step \in ClockSteps, split \in Splits : worker_begin(step, split)
    \/ worker_end

SpecRetain == InitRetain /\ [][NextRetain]_vars

SpecFault == Init /\ [][NextFault]_vars

\* a backups folder that is empty, or holds the KeepN files of earlier runs
LoopFolders == {{}, 1..KeepN}

InitLoop ==
    /\ products = {} /\ prodSeq = 0
    /\ sales_log = {} /\ salesSeq = 0
    /\ undo_stack = {} /\ undoSeq = 0
    /\ mirror = <<>>
    /\ tree = {}
    /\ var_search = ""
    /\ report = 0
    /\ h = NoHistory
    /\ faults = 0
    /\ done = <<>>
    /\ folder \in LoopFolders
    /\ bk = Idle(MaxOf(folder))

\* the forms entered while the loop is followed: each item, one piece of it
LoopForms == {form \in AddForms : form[2] = 1}

\* the window is open until on_close: add_product stands for the handlers
\* that run next to the worker, whose passes may fail, and the process ends
\* after on_close
NextLoop ==
    \/ /\ ~bk.stop
       /\ \E form \in LoopForms :
             add_product(form[1], form[2], form[3], "none") /\ Hit("none")
    \/ \E step \in ClockSteps, split \in Splits : worker_begin(step, split)
    \/ worker_end
    \/ \E left \in BOOLEAN : worker_fail(left)
    \/ \E stuck \in SUBSET (folder \ keep_last_n_backups(folder, KeepN)) :
          worker_end_stuck(stuck)
    \/ on_close
    \/ worker_exit
    \/ exit_process

SpecLoop == InitLoop /\ [][NextLoop]_vars

\* a worker that waits on the event wakes up when it is set, and main
\* returns after root.mainloop() returned
SpecLoopFair ==
    /\ SpecLoop
    /\ WF_vars(worker_exit)
    /\ WF_vars(exit_process)

\* ---- properties ----

\* the row of product pid in the table rows, as a set (empty when absent)
RowsOf(rows, pid) == {r \in rows : r.id = pid}

\* the last command was an undo right after a completed command of this kind
UndoRightAfter(kind) ==
    /\ h.kind = "UNDO"
    /\ h.before.kind = kind
    /\ h.before.res \in Completed

\* C1: a sell of q units, 1 <= q <= stock, leaves the product with quantity
\* stock - q and sold quantity increased by q, and an undo right after it gives
\* the product its quantity and sold quantity of before the sell and leaves
\* the sales records of before the sell.
C1_SellThenUndoRestores ==
    /\ (h.kind = "SELL" /\ h.res = "sold" /\ h.req <= h.stock) =>
          \E r \in RowsOf(products, h.pid) :
             /\ r.qty = h.stock - h.req
             /\ r.sold = Row(h.pre.products, h.pid).sold + h.req
    /\ (UndoRightAfter("SELL") /\ h.before.req <= h.before.stock) =>
          /\ \E r \in RowsOf(products, h.before.pid) :
                /\ r.qty = Row(h.before.pre.products, h.before.pid).qty
                /\ r.sold = Row(h.before.pre.products, h.before.pid).sold
          /\ Ids(sales_log) = Ids(h.before.pre.sales_log)

\* C2: every row of products has a quantity of at least 0.
C2_QuantityNeverNegative == \A r \in products : r.qty >= 0

\* C3: a sell never writes a negative quantity: when more is asked for than
\* the stock it read, it either changes nothing or sells exactly that stock.
C3_SellNeverBelowZero ==
    h.kind = "SELL" =>
       /\ h.newq >= 0
       /\ \A r \in RowsOf(products, h.pid) : r.qty >= 0
       /\ h.res = "sold" =>
             /\ \A r \in RowsOf(products, h.pid) : r.qty = h.newq
             /\ \E s \in sales_log :
                   /\ s.id \notin Ids(h.pre.sales_log)
                   /\ s.qty = h.stock - h.newq
                   /\ s.qty <= h.stock
       /\ (h.req > h.stock /\ h.stock > 0) =>
             \/ /\ h.res = "declined"
                /\ products = h.pre.products
                /\ sales_log = h.pre.sales_log
                /\ undo_stack = h.pre.undo_stack
             \/ /\ h.res = "sold"
                /\ h.newq = 0
                /\ \E s \in sales_log :
                      s.id \notin Ids(h.pre.sales_log) /\ s.qty = h.stock

C3_Witness == h.kind = "SELL" /\ h.res = "sold" /\ h.req > h.stock

\* C4: an add followed at once by an undo leaves the rows of products as
\* they were before the add.
C4_AddThenUndoRoundTrip ==
    UndoRightAfter("ADD") => products = h.before.pre.products

C4_Witness ==
    /\ UndoRightAfter("ADD")
    /\ h.before.pid \in Ids(h.pre.products)
    /\ h.before.pre.products # {}

\* C5: a delete followed at once by an undo restores a product with the name,
\* quantity, prices and sold quantity of the deleted one, under its old id
\* unless that id is taken when the undo runs.
C5_DeleteThenUndoRestores ==
    UndoRightAfter("DELETE") =>
       LET p == Row(h.before.pre.products, h.before.pid)
       IN \E r \in products :
             /\ r.name = p.name /\ r.qty = p.qty /\ r.buy = p.buy
             /\ r.sell = p.sell /\ r.sold = p.sold
             /\ (p.id \notin Ids(h.pre.products) => r.id = p.id)

C5_Witness ==
    /\ UndoRightAfter("DELETE")
    /\ Row(h.before.pre.products, h.before.pid).sold > 0

\* C6: an add, sell or delete is all or nothing: its change of products (and,
\* for a sell, its sales record) is committed exactly when its undo entry is.
C6_CommandAllOrNothing ==
    h.kind \in {"ADD", "SELL", "DELETE"} =>
       LET pushed == undoSeq > h.pre.undoSeq
           mutated ==
              CASE h.kind = "ADD" -> prodSeq > h.pre.prodSeq
                [] h.kind = "SELL" -> salesSeq > h.pre.salesSeq
                [] OTHER -> /\ h.pid \in Ids(h.pre.products)
                            /\ h.pid \notin Ids(products)
       IN mutated <=> pushed

\* the compensation of the undo entry e shows in the tables
Compensated(e) ==
    CASE e.action = "ADD" -> e.payload.product_id \notin Ids(products)
      [] e.action = "SELL" ->
            /\ e.payload.sales_log_id \notin Ids(sales_log)
            /\ \A r \in RowsOf(products, e.payload.product_id) :
                  r.qty = e.payload.prev_qty /\ r.sold = e.payload.prev_sold
      [] e.action = "DELETE" ->
            \E r \in products :
               /\ r.name = e.payload.data.name /\ r.qty = e.payload.data.qty
               /\ r.buy = e.payload.data.buy /\ r.sell = e.payload.data.sell
               /\ r.sold = e.payload.data.sold
      [] OTHER -> FALSE

\* C7: an undo removes the newest undo entry and applies its compensation
\* together: after an undo either the entry is gone and its compensation
\* shows in the tables, or the entry is still there and the tables are as
\* they were.
C7_UndoAllOrNothing ==
    (h.kind = "UNDO" /\ h.pre.undo_stack # {}) =>
       LET e == TopUndo(h.pre)
       IN \/ e \notin undo_stack /\ Compensated(e)
          \/ /\ e \in undo_stack
             /\ products = h.pre.products
             /\ sales_log = h.pre.sales_log

\* C8: the undo_stack rows in id order are the completed commands that are not
\* undone, in the order they completed, and an undo on a stack that is not
\* empty reverses the newest of them.
C8_UndoOrderIsCompletionOrder ==
    /\ Len(done) = Cardinality(undo_stack)
    /\ \A i \in 1..Len(done) :
          /\ SortById(undo_stack)[i].action = done[i][1]
          /\ SortById(undo_stack)[i].payload.product_id = done[i][2]
    /\ (h.kind = "UNDO" /\ h.pre.undo_stack # {}) =>
          /\ h.res = "undone"
          /\ h.entry.action = h.top[1]
          /\ h.entry.payload.product_id = h.top[2]
          /\ undo_stack = h.pre.undo_stack \ {h.entry}

C8_Witness ==
    /\ h.kind = "UNDO"
    /\ h.res = "undone"
    /\ \E e \in undo_stack : e.action # h.entry.action

\* C9: an undo on an empty undo_stack reports that there is nothing to undo
\* and leaves products, sales_log and undo_stack as they are.
C9_UndoOnEmptyStack ==
    (h.kind = "UNDO" /\ h.pre.undo_stack = {}) =>
       /\ h.res = "empty"
       /\ products = h.pre.products
       /\ sales_log = h.pre.sales_log
       /\ undo_stack = {}

C9_Witness ==
    /\ h.kind = "UNDO"
    /\ h.pre.undo_stack = {}
    /\ h.pre.undoSeq > 0

\* C10: the profit shown in the report is the sum of the profit of the rows
\* of sales_log, each the quantity sold times (sell price - buy price) with
\* the prices the product had when it was sold.
C10_ReportedProfitIsSum ==
    /\ report = SumProfit(sales_log)
    /\ \A s \in sales_log : s.profit = s.qty * (s.price_sell - s.price_buy)
    /\ (h.kind = "SELL" /\ h.res = "sold") =>
          \A s \in sales_log :
             s.id \notin Ids(h.pre.sales_log) =>
                /\ s.price_buy = Row(h.pre.products, h.pid).buy
                /\ s.price_sell = Row(h.pre.products, h.pid).sell

C10_Witness ==
    /\ h.kind = "DELETE_SALE"
    /\ h.res = "removed"
    /\ sales_log # {}
    /\ sales_log # h.pre.sales_log
    /\ report # 0

\* C11: a delete removes no sales record: every sales record of before the
\* delete is still there with its quantity, prices and profit, those of the
\* deleted product with their product reference unset, no record is added,
\* and the total profit is the same before and after.
C11_DeleteKeepsSales ==
    (h.kind = "DELETE" /\ h.res = "deleted") =>
       /\ h.pid \notin Ids(products)
       /\ Ids(sales_log) = Ids(h.pre.sales_log)
       /\ \A s \in h.pre.sales_log :
             \E t \in sales_log :
                /\ t.id = s.id /\ t.qty = s.qty /\ t.profit = s.profit
                /\ t.price_buy = s.price_buy /\ t.price_sell = s.price_sell
                /\ (s.product_id = h.pid => t.product_id = NULL)
       /\ SumProfit(sales_log) = SumProfit(h.pre.sales_log)
       /\ report = TotalProfit(h.pre)

C11_Witness ==
    /\ h.kind = "DELETE"
    /\ h.res = "deleted"
    /\ \E s \in h.pre.sales_log : s.product_id = h.pid /\ s.profit # 0

\* C12: a command that fails or is aborted (an add with a missing or
\* non-numeric field, a sell or delete of a row that is not in products, a
\* sell of a product with quantity 0, a sell or delete whose dialog is
\* declined) leaves products, sales_log and undo_stack as they were.
C12_FailedCommandChangesNothing ==
    (/\ h.kind \in {"ADD", "SELL", "DELETE"}
     /\ h.res \in {"invalid", "notfound", "outofstock", "declined"}) =>
       /\ products = h.pre.products
       /\ sales_log = h.pre.sales_log
       /\ undo_stack = h.pre.undo_stack

C12_Witness ==
    /\ h.kind = "SELL"
    /\ h.res = "outofstock"
    /\ h.pid \in Ids(products)
    /\ undo_stack # {}

\* C13: a confirmed sell that asks for more than the stock s > 0 sells exactly
\* s: after it the product has quantity 0 and its sold quantity is s more
\* than before, and exactly one sales record, of quantity s, was added.
C13_CappedSellSellsStock ==
    (h.kind = "SELL" /\ h.res = "sold" /\ h.req > h.stock /\ h.stock > 0) =>
       /\ \E r \in RowsOf(products, h.pid) :
             /\ r.qty = 0
             /\ r.sold = Row(h.pre.products, h.pid).sold + h.stock
       /\ Cardinality(sales_log \ h.pre.sales_log) = 1
       /\ \A s \in sales_log \ h.pre.sales_log : s.qty = h.stock

\* C14: an undo of a SELL entry whose saved sales record is no longer in
\* sales_log removes the most recent sales record with the entry's product
\* and quantity, when there is one.
C14_UndoSellFallsBack ==
    (/\ h.kind = "UNDO"
     /\ h.entry.action = "SELL"
     /\ h.entry.payload.sales_log_id \notin Ids(h.pre.sales_log)) =>
       LET match == {s \in h.pre.sales_log :
                        /\ s.product_id = h.entry.payload.product_id
                        /\ s.qty = h.entry.payload.qty}
       IN match # {} =>
             sales_log = h.pre.sales_log \ {Row(match, MaxOf(Ids(match)))}

\* C15: an undo of an ADD entry whose product is no longer in products leaves
\* products and sales_log as they are, is not reported as an error, and
\* still removes the entry from undo_stack.
C15_UndoAddOfMissingProduct ==
    (/\ h.kind = "UNDO"
     /\ h.entry.action = "ADD"
     /\ h.entry.payload.product_id \notin Ids(h.pre.products)) =>
       /\ products = h.pre.products
       /\ sales_log = h.pre.sales_log
       /\ h.res = "undone"
       /\ h.entry \in h.pre.undo_stack
       /\ undo_stack = h.pre.undo_stack \ {h.entry}

C15_Witness ==
    /\ h.kind = "UNDO"
    /\ h.entry.action = "ADD"
    /\ h.entry.payload.product_id \notin Ids(h.pre.products)
    /\ h.pre.products # {}

\* C16: a successful add of a quantity >= 0 leaves exactly one new row in
\* products, with the name, quantity and prices of the form, sold quantity 0
\* and an id that no row had, and exactly one new row in undo_stack, an ADD
\* entry whose payload holds that id.
C16_AddInsertsOneProduct ==
    (h.kind = "ADD" /\ h.res = "added" /\ h.req >= 0) =>
       /\ h.pid \notin Ids(h.pre.products)
       /\ products = h.pre.products \cup
                        {[id |-> h.pid, name |-> h.item[1], qty |-> h.req,
                          buy |-> h.item[2], sell |-> h.item[3], sold |-> 0]}
       /\ \E e \in undo_stack :
             /\ e.id \notin Ids(h.pre.undo_stack)
             /\ e.action = "ADD"
             /\ e.payload.product_id = h.pid
             /\ undo_stack = h.pre.undo_stack \cup {e}

\* C17: the undo stack survives a restart: the in-memory stack always holds
\* the rows of undo_stack in id order, so that loading it again gives the
\* same entries in the same order; a restart leaves undo_stack as it is; and
\* an undo right after a restart pops the entry that an undo in place of the
\* restart would have popped.
C17_UndoStackSurvivesRestart ==
    /\ mirror = SortById(undo_stack)
    /\ h.kind = "RESTART" =>
          /\ undo_stack = h.pre.undo_stack
          /\ undoSeq = h.pre.undoSeq
          /\ mirror = SortById(h.pre.undo_stack)
    /\ (h.kind = "UNDO" /\ h.before.kind = "RESTART") =>
          /\ h.pre.undo_stack = h.before.pre.undo_stack
          /\ h.entry = TopUndo(h.before.pre)
          /\ h.res = IF h.before.pre.undo_stack = {} THEN "empty" ELSE "undone"
          /\ undo_stack = h.before.pre.undo_stack \ {h.entry}

C17_Witness ==
    /\ h.kind = "UNDO"
    /\ h.before.kind = "RESTART"
    /\ h.res = "undone"
    /\ Len(mirror) >= 2

\* C18: every backup file is a copy of the database as it was at one single
\* instant while the copy was open (after one of the commits made until
\* then, or as it was when the copy began), also when a command commits in
\* between.
C18_BackupIsPointInTime ==
    (bk.pc = "wait" /\ bk.n > 0) => bk.file \in bk.seen

\* C19: after a backup pass at most KeepN backup files are in the folder, and
\* they are the KeepN greatest by name of the files that were there plus the
\* new one: every file that is gone is older than every file that is kept.
C19_KeepsNewestBackups ==
    (bk.pc = "wait" /\ bk.n > 0) =>
       LET all == bk.had \cup {bk.ts}
       IN /\ Cardinality(folder) <= KeepN
          /\ folder \subseteq all
          /\ Cardinality(folder) =
                IF Cardinality(all) > KeepN THEN KeepN ELSE Cardinality(all)
          /\ \A f \in all \ folder : \A g \in folder : f < g

C19_Witness ==
    /\ bk.pc = "wait"
    /\ bk.n > 0
    /\ Cardinality(bk.had \cup {bk.ts}) > KeepN
    /\ bk.ts \in folder

\* C20: the housekeeping of refresh_list leaves undo_stack and its counter
\* as they are and leaves every row of products with a quantity above 0 as it
\* is: in every state for every search text, and when a search or a restart
\* has run it.
C20_HousekeepingFrame ==
    /\ \A q \in Searches :
          LET d == RefreshDb(Db, q)
          IN /\ d.undo_stack = undo_stack
             /\ d.undoSeq = undoSeq
             /\ d.products \subseteq products
             /\ \A r \in products : r.qty > 0 => r \in d.products
    /\ h.kind \in {"SEARCH", "RESTART"} =>
          /\ undo_stack = h.pre.undo_stack
          /\ undoSeq = h.pre.undoSeq
          /\ products \subseteq h.pre.products
          /\ \A r \in h.pre.products : r.qty > 0 => r \in products

C20_Witness ==
    /\ h.kind = "SEARCH"
    /\ products # h.pre.products
    /\ \E r \in products : r.qty = 1
    /\ undo_stack # {}

\* C21: a successful add, sell or delete appends exactly one row to
\* undo_stack, with an id above every id that is there; an undo on a stack
\* that is not empty removes exactly one row, the one with the highest id,
\* whatever its action and however its compensation ends, and pushes none;
\* and no command changes or removes a row it did not pop.
C21_UndoStackPushAndPop ==
    /\ (h.kind \in {"ADD", "SELL", "DELETE"} /\ h.res \in Completed) =>
          \E e \in undo_stack :
             /\ \A x \in h.pre.undo_stack : e.id > x.id
             /\ undo_stack = h.pre.undo_stack \cup {e}
    /\ (h.kind = "UNDO" /\ h.pre.undo_stack # {}) =>
          undo_stack = h.pre.undo_stack \ {TopUndo(h.pre)}
    /\ h.kind = "UNDO" => undo_stack \subseteq h.pre.undo_stack
    /\ h.kind # "UNDO" => h.pre.undo_stack \subseteq undo_stack

C23_BackupFailureIsSwallowed ==
    [][/\ bk'.fails > bk.fails =>
            /\ Db' = Db
            /\ UNCHANGED <<uivars, h>>
            /\ bk'.pc = "wait"
            /\ bk'.stop = bk.stop
       /\ (bk.fails > 0 /\ h' # h) =>
            /\ h'.res = "added"
            /\ bk' = bk]_vars

\* a pass has failed while the ledger held a product, a command completed
\* after it, and a later pass is under way
C23_Witness ==
    /\ bk.fails > 0
    /\ bk.pc = "copy"
    /\ ~bk.stop
    /\ h.res = "added"
    /\ bk.first.products # {}
    /\ h.pre.products # {}

\* C24: once on_close has set the stop signal the worker ends, no pass is
\* started after the signal, and a copy that was open when the signal came
\* is written to its end before the process is gone.
C24_StopDrainsTheWorker ==
    /\ [](bk.stop => bk.begun = bk.at)
    /\ [](~bk.cut)
    /\ (bk.stop ~> bk.pc \in {"exit", "dead"})

\* C25: after every command and after the load at startup the in-memory
\* list holds the rows of undo_stack, each once, in ascending id order; and
\* the entry an undo reverses is the newest row of the table as it was, which
\* is then in neither the table nor the list.
C25_MirrorFollowsTable ==
    /\ {mirror[i] : i \in 1..Len(mirror)} = undo_stack
    /\ \A i, j \in 1..Len(mirror) : i < j => mirror[i].id < mirror[j].id
    /\ (h.kind = "UNDO" /\ h.pre.undo_stack # {}) =>
          /\ h.entry \in h.pre.undo_stack
          /\ \A x \in h.pre.undo_stack : x.id <= h.entry.id
          /\ \A i \in 1..Len(mirror) : mirror[i].id # h.entry.id
          /\ h.entry \notin undo_stack

\* an undo took the newest of several entries and left the others in
\* both places
C25_Witness ==
    /\ h.kind = "UNDO" /\ h.res = "undone"
    /\ Cardinality(h.pre.undo_stack) >= 2
    /\ Len(mirror) = Cardinality(h.pre.undo_stack) - 1
    /\ mirror[Len(mirror)] = TopUndo(Db)

\* C26: when no statement fails, an undo that meets a DELETE entry finds no
\* row of products with the saved id, and the product comes back under that
\* id, without a new id being handed out.
C26_SavedIdIsFree ==
    (h.kind = "UNDO" /\ h.entry.action = "DELETE") =>
       LET p == h.entry.payload
       IN /\ p.product_id \notin Ids(h.pre.products)
          /\ p.product_id <= h.pre.prodSeq
          /\ RowsOf(products, p.product_id) =
                {[id |-> p.product_id, name |-> p.data.name, qty |-> p.data.qty,
                  buy |-> p.data.buy, sell |-> p.data.sell, sold |-> p.data.sold]}
          /\ prodSeq = h.pre.prodSeq
          /\ Cardinality(products) = Cardinality(h.pre.products) + 1

\* a product is restored under its id after newer ids were handed out and
\* next to another product
C26_Witness ==
    /\ h.kind = "UNDO" /\ h.entry.action = "DELETE"
    /\ h.entry.payload.product_id < h.pre.prodSeq
    /\ h.pre.products # {}
    /\ RowsOf(products, h.entry.payload.product_id) # {}

\* C27: when no statement fails, every row of products has qty + sold_qty
\* equal to the quantity add_product inserted it with, whatever sales,
\* deletes and undos came after.
C27_QtyPlusSoldIsAdded ==
    \A r \in products : <<r.id, r.qty + r.sold>> \in h.added

\* a product that was sold from and then deleted is back by an undo, and an
\* undo before that took back a sale
C27_Witness ==
    /\ h.kind = "UNDO" /\ h.entry.action \in {"SELL", "DELETE"}
    /\ \E r \in products :
          /\ r.id = h.entry.payload.product_id
          /\ r.sold > 0 /\ r.qty > 0
          /\ <<r.id, r.qty + r.sold>> \in h.added

\* C28: the undo of a delete writes products only: sales_log is as it was
\* before the undo and none of its rows names the restored product; right
\* after the delete, every sale that named the product before it is still
\* there with no product, however large the restored sold_qty is.
C28_UndoDeleteLeavesSalesUnlinked ==
    /\ (h.kind = "UNDO" /\ h.entry.action = "DELETE") =>
          /\ sales_log = h.pre.sales_log
          /\ salesSeq = h.pre.salesSeq
          /\ \A s \in sales_log : s.product_id # h.entry.payload.product_id
    /\ UndoRightAfter("DELETE") =>
          \A s \in h.before.pre.sales_log :
             s.product_id = h.before.pid =>
                /\ s \notin sales_log
                /\ [s EXCEPT !.product_id = NULL] \in sales_log

\* a product with sales was deleted and restored: its row shows a sold_qty
\* above 0 and its sales are there without a product
C28_Witness ==
    /\ UndoRightAfter("DELETE")
    /\ \E r \in RowsOf(products, h.before.pid) : r.sold > 0
    /\ \E s \in h.before.pre.sales_log : s.product_id = h.before.pid
    /\ \E s \in sales_log : s.product_id = NULL
====
